---------------------------- MODULE Spec2Model ----------------------------
(***************************************************************************)
(* SunFlux: the proton-flux pipeline (src/proton_flux.py) and the A-index  *)
(* pipeline (src/aindex.py).                                               *)
(*                                                                         *)
(* Four specifications:                                                   *)
(*   Spec      two successive scheduled runs of proton_flux.main() on the  *)
(*             same cache file (the second starts after the first ended);  *)
(*   SpecRace  two concurrently scheduled ProtonFlux constructions on the  *)
(*             same cache file;                                            *)
(*   SpecFeed  download() applied to every bounded feed;                   *)
(*   SpecA     one run of aindex.main().                                   *)
(***************************************************************************)
EXTENDS Integers, Sequences, FiniteSets, TLC

VARIABLES
  clock,        \* wall clock (time.time(), and the clock that stamps st_mtime)
  cache_time,   \* ProtonFlux(cache_file, cache_time)
  feed,         \* what NOAA_URL serves: [json_ok, elems]
  file,         \* the cache file: [exists, bytes, mtime]
  pc,           \* per run: where the run is
  now,          \* per run: line 59
  data,         \* per run: self.data
  wpos,         \* per run: offset of fd_cache while writing
  hist,         \* per run: what the run did (calls, exceptions, exit status)
  apc,          \* aindex.main(): where the run is
  table,        \* the wwv table: a set of [time, A, conditions]
  start_date,   \* get_wwv: utcnow() - days
  adata,        \* aindex.main(): data
  condition,    \* aindex.main(): condition
  colors,       \* aindex.graph(): colors
  ahist         \* aindex.main(): what the run did

vars == <<clock, cache_time, feed, file, pc, now, data, wpos, hist,
          apc, table, start_date, adata, condition, colors, ahist>>
pvars == <<clock, cache_time, feed, file, pc, now, data, wpos, hist>>
avars == <<apc, table, start_date, adata, condition, colors, ahist>>

(***************************************************************************)
(* Bounds of the model.                                                    *)
(***************************************************************************)
MaxClock == 4
MaxTTL == 2
MaxFeedLen == 3
MaxRows == 3

Runs == {1, 2}

(***************************************************************************)
(* Python values.  self.data is None or a dict; a dict is the sequence of  *)
(* its items in insertion order, keys unique.                              *)
(***************************************************************************)
None == [some |-> FALSE, d |-> <<>>]
Some(d) == [some |-> TRUE, d |-> d]

RECURSIVE Index(_, _, _)
\* position of key k in dict d at or after position i, 0 when absent
Index(d, k, i) ==
  IF i > Len(d) THEN 0
  ELSE IF d[i].time_tag = k THEN i
  ELSE Index(d, k, i + 1)

HasKey(d, k) == Index(d, k, 1) # 0

\* d[k] = v : replaces in place, or appends
DictSet(d, k, v) ==
  LET i == Index(d, k, 1)
      item == [time_tag |-> k, flux |-> v]
  IN IF i = 0 THEN Append(d, item) ELSE [d EXCEPT ![i] = item]

DictGet(d, k) == d[Index(d, k, 1)].flux

(***************************************************************************)
(* download(), lines 70-92.                                                *)
(***************************************************************************)
Bands == {1, 10, 100, 30, 5, 50, 500, 60}

\* get_e: the group of r'>=(\d+)\sMeV', or None.  A feed element's energy
\* field is [matches, mev]: whether the text has the form ">=<mev> MeV".
get_e(field) == IF field.matches THEN Some(field.mev) ELSE None

\* a row that holds only the bands graph() plots
PlottedRow == [k \in {10, 50, 100} |-> 0]

\* line 86
ZeroRow == [k \in Bands |-> 0]

RECURSIVE FirstPass(_, _, _)
\* lines 84-86
FirstPass(elems, i, acc) ==
  IF i > Len(elems) THEN acc
  ELSE FirstPass(elems, i + 1, DictSet(acc, elems[i].time_tag, ZeroRow))

\* data[date][energy] = elem['flux']
RowSet(row, energy, flux) ==
  [k \in (DOMAIN row) \cup {energy} |-> IF k = energy THEN flux ELSE row[k]]

RECURSIVE SecondPass(_, _, _)
\* lines 88-91; int(None) raises TypeError
SecondPass(elems, i, acc) ==
  IF i > Len(elems) THEN [exc |-> "none", value |-> acc]
  ELSE LET e == get_e(elems[i].energy)
           date == elems[i].time_tag
       IN IF ~e.some THEN [exc |-> "TypeError", value |-> <<>>]
          ELSE SecondPass(elems, i + 1,
                 DictSet(acc, date, RowSet(DictGet(acc, date), e.d, elems[i].flux)))

\* the whole of download() on a response that arrived
Parse(fd) ==
  IF ~fd.json_ok THEN [exc |-> "JSONDecodeError", value |-> <<>>]
  ELSE SecondPass(fd.elems, 1, FirstPass(fd.elems, 1, <<>>))

(***************************************************************************)
(* pickle.dump / pickle.load, lines 99 and 108.  The file is a sequence of *)
(* tokens: the PROTO opcode, then frames, each a FRAME header followed by  *)
(* its body; the last body holds the STOP opcode.                          *)
(***************************************************************************)
Tok(op) == [op |-> op, item |-> <<>>, last |-> FALSE]
Body(item, last) == [op |-> "BODY", item |-> item, last |-> last]

RECURSIVE Frames(_, _)
Frames(d, i) ==
  IF Len(d) = 0 THEN <<Tok("FRAME"), Body(<<>>, TRUE)>>
  ELSE IF i > Len(d) THEN <<>>
  ELSE <<Tok("FRAME"), Body(<<d[i]>>, i = Len(d))>> \o Frames(d, i + 1)

dumps(d) == <<Tok("PROTO")>> \o Frames(d, 1)

RECURSIVE LoadFrames(_, _, _)
\* reading an opcode at end of file is EOFError("Ran out of input"); reading
\* an opcode's argument there is UnpicklingError("pickle data was truncated")
LoadFrames(b, i, acc) ==
  IF i > Len(b) THEN [exc |-> "EOFError", value |-> <<>>]
  ELSE IF b[i].op # "FRAME" THEN [exc |-> "UnpicklingError", value |-> <<>>]
  ELSE IF i + 1 > Len(b) THEN [exc |-> "UnpicklingError", value |-> <<>>]
  ELSE IF b[i + 1].op # "BODY" THEN [exc |-> "UnpicklingError", value |-> <<>>]
  ELSE IF b[i + 1].last THEN [exc |-> "none", value |-> acc \o b[i + 1].item]
  ELSE LoadFrames(b, i + 2, acc \o b[i + 1].item)

loads(b) ==
  IF Len(b) = 0 THEN [exc |-> "EOFError", value |-> <<>>]
  ELSE IF b[1].op # "PROTO" THEN [exc |-> "UnpicklingError", value |-> <<>>]
  ELSE LoadFrames(b, 2, <<>>)

\* fd.write(tok) at offset pos of a file holding b; a gap reads as NUL bytes
WriteAt(b, pos, tok) ==
  LET n == IF pos > Len(b) THEN pos ELSE Len(b)
  IN [i \in 1..n |-> IF i = pos THEN tok
                     ELSE IF i <= Len(b) THEN b[i] ELSE Tok("NUL")]


(***************************************************************************)
(* What a run did; the claims are stated over it.                          *)
(***************************************************************************)
NoHist ==
  [stat |-> "none",      \* what os.stat found: "absent" | "present"
   age |-> 0,            \* now - st_mtime at os.stat
   statBytes |-> <<>>,   \* the file's content at os.stat
   ndownload |-> 0,      \* calls of download()
   dlexc |-> "none",     \* what download() raised
   nopen |-> 0,          \* calls of open(cachefile, 'wb')
   closed |-> FALSE,     \* writecache() returned
   nread |-> 0,          \* calls of open(cachefile, 'rb')
   readBytes |-> <<>>,   \* what readcache() read
   exc |-> "none",       \* the exception that escaped the run
   constructed |-> FALSE,\* ProtonFlux(...) returned
   doneAt |-> 0,         \* the clock when ProtonFlux(...) returned or raised
   figure |-> FALSE,     \* plt.figure() was called
   saved |-> FALSE,      \* fig.savefig() returned
   status |-> -1]        \* main()'s return value (1: a traceback)

EX_OK == 0
EX_DATAERR == 65

\* an exception that nothing catches ends the run with a traceback
Raise(p, h, name) ==
  /\ hist' = [hist EXCEPT ![p] = [h EXCEPT !.exc = name, !.status = 1]]
  /\ pc' = [pc EXCEPT ![p] = "done"]

(***************************************************************************)
(* ProtonFlux.__init__, lines 54-68.                                       *)
(***************************************************************************)
\* the freshness test with the boundary on the wrong side
ExpiredAtBoundary(t, mtime, ttl) == t - mtime >= ttl

\* line 62
Expired(t, mtime, ttl) == t - mtime > ttl

\* lines 59-64: now = time.time(); os.stat(); the freshness test
stat(p) ==
  /\ pc[p] = "stat"
  /\ now' = [now EXCEPT ![p] = clock]
  /\ LET h == [hist[p] EXCEPT
                 !.stat = IF file.exists THEN "present" ELSE "absent",
                 !.age = IF file.exists THEN clock - file.mtime ELSE 0,
                 !.statBytes = file.bytes]
     IN /\ hist' = [hist EXCEPT ![p] = h]
        /\ IF ~file.exists \/ Expired(clock, file.mtime, cache_time)
           THEN pc' = [pc EXCEPT ![p] = "download"]
           ELSE pc' = [pc EXCEPT ![p] = "readcache"]
  /\ UNCHANGED <<clock, cache_time, feed, file, data, wpos, avars>>

\* line 65, lines 70-92.  urlopen() raises URLError when the transport fails.
download(p) ==
  /\ pc[p] = "download"
  /\ \E net \in {"ok", "URLError"} :
       LET h == [hist[p] EXCEPT !.ndownload = @ + 1]
           r == Parse(feed)
           e == IF net # "ok" THEN net ELSE r.exc
       IN IF e # "none"
          THEN /\ Raise(p, [h EXCEPT !.dlexc = e, !.doneAt = clock], e)
               /\ UNCHANGED data
          ELSE /\ data' = [data EXCEPT ![p] = Some(r.value)]
               /\ hist' = [hist EXCEPT ![p] = h]
               /\ pc' = [pc EXCEPT ![p] = "open"]
  /\ UNCHANGED <<clock, cache_time, feed, file, now, wpos, avars>>

\* the cache file opened with 'ab': the new snapshot lands behind the old one
writecache_open_append(p) ==
  /\ pc[p] = "open"
  /\ file' = [file EXCEPT !.exists = TRUE, !.mtime = clock]
  /\ wpos' = [wpos EXCEPT ![p] = Len(file.bytes) + 1]
  /\ hist' = [hist EXCEPT ![p].nopen = @ + 1]
  /\ pc' = [pc EXCEPT ![p] = "write"]
  /\ UNCHANGED <<clock, cache_time, feed, now, data, avars>>

\* line 107: open(cachefile, 'wb') creates the file or truncates it
writecache_open(p) ==
  /\ pc[p] = "open"
  /\ file' = [exists |-> TRUE, bytes |-> <<>>, mtime |-> clock]
  /\ wpos' = [wpos EXCEPT ![p] = 1]
  /\ hist' = [hist EXCEPT ![p].nopen = @ + 1]
  /\ pc' = [pc EXCEPT ![p] = "write"]
  /\ UNCHANGED <<clock, cache_time, feed, now, data, avars>>

\* line 108: pickle.dump writes the stream out piece by piece
writecache_write(p) ==
  /\ pc[p] = "write"
  /\ wpos[p] <= Len(dumps(data[p].d))
  /\ file' = [file EXCEPT !.bytes = WriteAt(@, wpos[p], dumps(data[p].d)[wpos[p]]),
                          !.mtime = clock]
  /\ wpos' = [wpos EXCEPT ![p] = @ + 1]
  /\ UNCHANGED <<clock, cache_time, feed, pc, now, data, hist, avars>>

\* leaving the with block closes the file; __init__ returns
writecache_close(p) ==
  /\ pc[p] = "write"
  /\ wpos[p] > Len(dumps(data[p].d))
  /\ hist' = [hist EXCEPT ![p] = [@ EXCEPT !.closed = TRUE, !.constructed = TRUE,
                                           !.doneAt = clock]]
  /\ pc' = [pc EXCEPT ![p] = "constructed"]
  /\ UNCHANGED <<clock, cache_time, feed, file, now, data, wpos, avars>>

\* line 68, lines 94-102
readcache(p) ==
  /\ pc[p] = "readcache"
  /\ LET r == IF file.exists THEN loads(file.bytes)
                             ELSE [exc |-> "FileNotFoundError", value |-> <<>>]
         h == [hist[p] EXCEPT !.nread = @ + 1, !.readBytes = file.bytes]
     IN IF r.exc \in {"FileNotFoundError", "EOFError"}
        THEN /\ data' = [data EXCEPT ![p] = None]
             /\ hist' = [hist EXCEPT ![p] = [h EXCEPT !.constructed = TRUE,
                                                      !.doneAt = clock]]
             /\ pc' = [pc EXCEPT ![p] = "constructed"]
        ELSE IF r.exc # "none"
        THEN /\ Raise(p, [h EXCEPT !.doneAt = clock], r.exc)
             /\ UNCHANGED data
        ELSE /\ data' = [data EXCEPT ![p] = Some(r.value)]
             /\ hist' = [hist EXCEPT ![p] = [h EXCEPT !.constructed = TRUE,
                                                      !.doneAt = clock]]
             /\ pc' = [pc EXCEPT ![p] = "constructed"]
  /\ UNCHANGED <<clock, cache_time, feed, file, now, wpos, avars>>

(***************************************************************************)
(* ProtonFlux.graph, lines 115-155, and main, lines 158-175.               *)
(***************************************************************************)
energy == <<10, 50, 100>>

Max2(a, b) == IF a >= b THEN a ELSE b

RECURSIVE SeqMax(_, _)
\* data.max() of a non-empty array
SeqMax(s, i) == IF i = Len(s) THEN s[i] ELSE Max2(s[i], SeqMax(s, i + 1))

RECURSIVE PlotLoop(_, _, _)
\* lines 133-144: _max after the loop, or the exception that ends it
PlotLoop(d, i, m) ==
  IF i > Len(energy) THEN [exc |-> "none", value |-> m]
  ELSE IF \E j \in 1..Len(d) : energy[i] \notin DOMAIN d[j].flux
       THEN [exc |-> "KeyError", value |-> 0]
  ELSE IF Len(d) = 0 THEN [exc |-> "ValueError", value |-> 0]
  ELSE PlotLoop(d, i + 1, Max2(SeqMax([j \in 1..Len(d) |-> d[j].flux[energy[i]]], 1), m))

\* what graph() returns when it reaches its end: it has no return statement
GraphReturns == FALSE

\* line 172-175
ExitStatus(ret) == IF ~ret THEN EX_DATAERR ELSE EX_OK

\* main(): p_f.graph(name), then the return.  savefig may fail (OSError).
graph(p) ==
  /\ pc[p] = "constructed"
  /\ \E disk \in {"ok", "OSError"} :
       LET h == [hist[p] EXCEPT !.figure = TRUE]
           r == IF data[p].some THEN PlotLoop(data[p].d, 1, 0)
                                ELSE [exc |-> "AttributeError", value |-> 0]
           e == IF r.exc # "none" THEN r.exc
                ELSE IF r.value <= 0 THEN "ValueError"   \* math.log(0, 10)
                ELSE IF disk # "ok" THEN disk
                ELSE "none"
       IN IF e # "none"
          THEN Raise(p, h, e)
          ELSE /\ hist' = [hist EXCEPT ![p] =
                             [h EXCEPT !.saved = TRUE,
                                       !.status = ExitStatus(GraphReturns)]]
               /\ pc' = [pc EXCEPT ![p] = "done"]
  /\ UNCHANGED <<clock, cache_time, feed, file, now, data, wpos, avars>>

\* the scheduler starts the next run once the previous one has ended
launch ==
  /\ pc[1] = "done"
  /\ pc[2] = "idle"
  /\ pc' = [pc EXCEPT ![2] = "stat"]
  /\ UNCHANGED <<clock, cache_time, feed, file, now, data, wpos, hist, avars>>

tick ==
  /\ clock < MaxClock
  /\ clock' = clock + 1
  /\ UNCHANGED <<cache_time, feed, file, pc, now, data, wpos, hist, avars>>

(***************************************************************************)
(* Initial states.                                                         *)
(***************************************************************************)
Energy(mev) == [matches |-> TRUE, mev |-> mev]
NoEnergy == [matches |-> FALSE, mev |-> 0]
Elem(t, e, f) == [time_tag |-> t, energy |-> e, flux |-> f]
Json(elems) == [json_ok |-> TRUE, elems |-> elems]
NotJson == [json_ok |-> FALSE, elems |-> <<>>]

\* the feed that the snapshot on disk was made from
OldFeed == Json(<<Elem(1, Energy(10), 3)>>)
OldData == Parse(OldFeed).value

SeqFeeds ==
  { Json(<<>>),
    Json(<<Elem(1, Energy(10), 2), Elem(2, Energy(50), 1), Elem(2, Energy(10), 1)>>),
    Json(<<Elem(1, Energy(1), 2)>>),
    NotJson }

SnapshotBytes ==
  { dumps(OldData),                 \* a complete snapshot
    <<>>,                           \* an empty file
    <<Tok("PROTO")>>,               \* cut between two opcodes
    <<Tok("PROTO"), Tok("FRAME")>>, \* cut inside a frame
    <<Tok("JUNK")>> }               \* not a pickle

InitFiles ==
  {[exists |-> FALSE, bytes |-> <<>>, mtime |-> 0]}
    \cup {[exists |-> TRUE, bytes |-> b, mtime |-> 0] : b \in SnapshotBytes}

AInit ==
  /\ apc = "off"
  /\ table = {}
  /\ start_date = 0
  /\ adata = <<>>
  /\ condition = None
  /\ colors = <<>>
  /\ ahist = [exc |-> "none", rendered |-> FALSE, nodata |-> FALSE]

Init ==
  /\ clock = 0
  /\ cache_time \in 1..MaxTTL
  /\ feed \in SeqFeeds
  /\ file \in InitFiles
  /\ pc = [p \in Runs |-> IF p = 1 THEN "stat" ELSE "idle"]
  /\ now = [p \in Runs |-> 0]
  /\ data = [p \in Runs |-> None]
  /\ wpos = [p \in Runs |-> 0]
  /\ hist = [p \in Runs |-> NoHist]
  /\ AInit

Next ==
  \/ \E p \in Runs : stat(p)
  \/ \E p \in Runs : download(p)
  \/ \E p \in Runs : writecache_open(p)
  \/ \E p \in Runs : writecache_write(p)
  \/ \E p \in Runs : writecache_close(p)
  \/ \E p \in Runs : readcache(p)
  \/ \E p \in Runs : graph(p)
  \/ launch
  \/ tick

Spec == Init /\ [][Next]_vars

(***************************************************************************)
(* Two runs scheduled independently on the same cache path: nothing orders *)
(* the steps of one against the steps of the other.                        *)
(***************************************************************************)
RaceFeeds ==
  { Json(<<Elem(1, Energy(10), 2), Elem(2, Energy(50), 1)>>) }

InitRace ==
  /\ clock = 0
  /\ cache_time \in 1..MaxTTL
  /\ feed \in RaceFeeds
  /\ file \in {f \in InitFiles : ~f.exists \/ f.bytes = dumps(OldData)}
  /\ pc = [p \in Runs |-> "stat"]
  /\ now = [p \in Runs |-> 0]
  /\ data = [p \in Runs |-> None]
  /\ wpos = [p \in Runs |-> 0]
  /\ hist = [p \in Runs |-> NoHist]
  /\ AInit

NextRace ==
  \/ \E p \in Runs : stat(p)
  \/ \E p \in Runs : download(p)
  \/ \E p \in Runs : writecache_open(p)
  \/ \E p \in Runs : writecache_write(p)
  \/ \E p \in Runs : writecache_close(p)
  \/ \E p \in Runs : readcache(p)
  \/ tick

SpecRace == InitRace /\ [][NextRace]_vars

(***************************************************************************)
(* download() on every feed of at most MaxFeedLen elements.                *)
(***************************************************************************)
FeedElems ==
  { Elem(t, e, f) : t \in {1, 2},
                    e \in {Energy(10), Energy(100), Energy(2), NoEnergy},
                    f \in {1, 2} }

BoundedFeeds ==
  { Json(s) : s \in UNION { [1..n -> FeedElems] : n \in 0..MaxFeedLen } }
    \cup {NotJson}

InitFeed ==
  /\ clock = 0
  /\ cache_time = 1
  /\ feed \in BoundedFeeds
  /\ file = [exists |-> FALSE, bytes |-> <<>>, mtime |-> 0]
  /\ pc = [p \in Runs |-> IF p = 1 THEN "download" ELSE "idle"]
  /\ now = [p \in Runs |-> 0]
  /\ data = [p \in Runs |-> None]
  /\ wpos = [p \in Runs |-> 0]
  /\ hist = [p \in Runs |-> NoHist]
  /\ AInit

NextFeed == \E p \in Runs : download(p)

SpecFeed == InitFeed /\ [][NextFeed]_vars

(***************************************************************************)
(* aindex.py.  The wwv table is the sequence of its rows [time, A,         *)
(* conditions]; time counts half days.  AVG is the exact quotient          *)
(* [sum, cnt].                                                             *)
(***************************************************************************)
HalfDays == 2

\* DATE(DATETIME(wwv.time, "unixepoch"))
Date(t) == t \div HalfDays

Min2(a, b) == IF a <= b THEN a ELSE b

RECURSIVE Fold(_, _, _, _)
\* MAX, AVG, MIN of column A over the rows of one group
Fold(rows, i, dt, acc) ==
  IF i > Len(rows) THEN acc
  ELSE IF rows[i].time > start_date /\ Date(rows[i].time) = dt
       THEN Fold(rows, i + 1, dt,
              [amax |-> IF acc.cnt = 0 THEN rows[i].A ELSE Max2(acc.amax, rows[i].A),
               amin |-> IF acc.cnt = 0 THEN rows[i].A ELSE Min2(acc.amin, rows[i].A),
               sum |-> acc.sum + rows[i].A,
               cnt |-> acc.cnt + 1])
       ELSE Fold(rows, i + 1, dt, acc)

\* WWV_REQUEST, lines 30-35: one row per date, (MAX, AVG, MIN, dt)
Group(rows, dt) ==
  LET g == Fold(rows, 1, dt, [amax |-> 0, amin |-> 0, sum |-> 0, cnt |-> 0])
  IN [dte |-> dt, amax |-> g.amax, aavg |-> [sum |-> g.sum, cnt |-> g.cnt],
      amin |-> g.amin]

GroupKeys(rows) ==
  { Date(rows[i].time) : i \in {j \in 1..Len(rows) : rows[j].time > start_date} }

Perms(S) ==
  { f \in [1..Cardinality(S) -> S] : \A i, j \in 1..Cardinality(S) : f[i] = f[j] => i = j }

\* lines 54-69.  WWV_REQUEST has no ORDER BY: the store returns its groups
\* in an order of its own choosing; get_wwv appends them as they come.
get_wwv ==
  /\ apc = "get_wwv"
  /\ \E results \in Perms(GroupKeys(table)) :
       adata' = [i \in 1..Len(results) |-> Group(table, results[i])]
  /\ apc' = "get_conditions"
  /\ UNCHANGED <<table, start_date, condition, colors, ahist, pvars>>

RECURSIVE Latest(_, _, _)
\* WWV_CONDITIONS, line 37: the row of the greatest time
Latest(rows, i, best) ==
  IF i > Len(rows) THEN best
  ELSE IF best = 0 \/ rows[i].time > rows[best].time THEN Latest(rows, i + 1, i)
  ELSE Latest(rows, i + 1, best)

\* lines 46-52: fetchone() is None on an empty table, and None[0] raises
get_conditions ==
  /\ apc = "get_conditions"
  /\ IF Len(table) = 0
     THEN /\ ahist' = [ahist EXCEPT !.exc = "TypeError"]
          /\ apc' = "done"
          /\ UNCHANGED condition
     ELSE /\ condition' = Some(table[Latest(table, 1, 0)].conditions)
          /\ apc' = "branch"
          /\ UNCHANGED ahist
  /\ UNCHANGED <<table, start_date, adata, colors, pvars>>

\* k < val, val < k, val >= k for val = sum / cnt
Above(val, k) == k * val.cnt < val.sum
Below(val, k) == val.sum < k * val.cnt
AtLeast(val, k) == val.sum >= k * val.cnt

\* lines 86-95
Color(val) ==
  IF Above(val, 20) /\ Below(val, 30) THEN "darkorange"
  ELSE IF Above(val, 30) /\ Below(val, 50) THEN "red"
  ELSE IF Above(val, 50) /\ Below(val, 100) THEN "darkred"
  ELSE IF AtLeast(val, 100) THEN "darkmagenta"
  ELSE "lightgreen"

\* lines 155-157 and graph(), lines 79-133
agraph ==
  /\ apc = "branch"
  /\ Len(adata) # 0
  /\ colors' = [pos \in 1..Len(adata) |-> Color(adata[pos].aavg)]
  /\ ahist' = [ahist EXCEPT !.rendered = TRUE]
  /\ apc' = "done"
  /\ UNCHANGED <<table, start_date, adata, condition, pvars>>

\* lines 158-159
nodata ==
  /\ apc = "branch"
  /\ Len(adata) = 0
  /\ ahist' = [ahist EXCEPT !.nodata = TRUE]
  /\ apc' = "done"
  /\ UNCHANGED <<table, start_date, adata, condition, colors, pvars>>

AValues == {10, 20, 30, 50, 100}

Samples == [time : 0..(3 * HalfDays - 1), A : AValues, conditions : {"quiet"}]

InitA ==
  /\ clock = 0
  /\ cache_time = 1
  /\ feed = NotJson
  /\ file = [exists |-> FALSE, bytes |-> <<>>, mtime |-> 0]
  /\ pc = [p \in Runs |-> "idle"]
  /\ now = [p \in Runs |-> 0]
  /\ data = [p \in Runs |-> None]
  /\ wpos = [p \in Runs |-> 0]
  /\ hist = [p \in Runs |-> NoHist]
  /\ apc = "get_wwv"
  /\ table \in UNION { [1..n -> Samples] : n \in 0..MaxRows }
  /\ start_date \in {-1, HalfDays - 1}
  /\ adata = <<>>
  /\ condition = None
  /\ colors = <<>>
  /\ ahist = [exc |-> "none", rendered |-> FALSE, nodata |-> FALSE]

NextA ==
  \/ get_wwv
  \/ get_conditions
  \/ agraph
  \/ nodata

SpecA == InitA /\ [][NextA]_vars

(***************************************************************************)
(* The claims.                                                             *)
(***************************************************************************)
\* ProtonFlux(...) of run p has returned or raised
InitOver(p) ==
  \/ hist[p].constructed
  \/ pc[p] = "done" /\ ~hist[p].figure

\* what os.stat showed to run p
AbsentOrStale(p) ==
  \/ hist[p].stat = "absent"
  \/ hist[p].stat = "present" /\ hist[p].age > cache_time

Fresh(p) == hist[p].stat = "present" /\ hist[p].age <= cache_time

\* the payload self.data holds after reading bytes b (None on EOFError)
ReadOf(b) == IF loads(b).exc = "none" THEN Some(loads(b).value) ELSE None

\* no run is inside writecache()
NoWriter == \A q \in Runs : hist[q].nopen = 0 \/ hist[q].closed

\* the fresh half of C1, which the code meets as stated
FreshServed(p) ==
  Fresh(p) =>
    /\ hist[p].ndownload = 0
    /\ hist[p].nopen = 0
    /\ hist[p].nread = 1
    /\ hist[p].readBytes = hist[p].statBytes
    /\ loads(hist[p].statBytes).exc \in {"none", "EOFError"}
         => data[p] = ReadOf(hist[p].statBytes)

\* C1 as stated: an absent or stale snapshot means exactly one download()
\* and the snapshot then written; a fresh one (age <= cache_time, the
\* boundary included) means no download(), no write, and the payload read
\* from the snapshot.
C1_AsStated ==
  \A p \in Runs : InitOver(p) =>
    /\ AbsentOrStale(p) =>
         /\ hist[p].ndownload = 1
         /\ hist[p].nopen = 1
         /\ hist[p].closed
    /\ FreshServed(p)

\* C1 amended: an absent or stale snapshot means exactly one download();
\* the snapshot is then written, with the downloaded payload, when that
\* download() returns (it holds that payload whenever no run is rewriting
\* it), and is not opened for writing when it raises.  The fresh half is as
\* stated.
C1_Freshness ==
  \A p \in Runs : InitOver(p) =>
    /\ AbsentOrStale(p) =>
         /\ hist[p].ndownload = 1
         /\ hist[p].dlexc = "none" =>
              /\ hist[p].nopen = 1
              /\ hist[p].closed
              /\ NoWriter => file.bytes = dumps(data[p].d)
         /\ hist[p].dlexc # "none" =>
              /\ hist[p].nopen = 0
              /\ ~hist[p].closed
    /\ FreshServed(p)

\* one run met a snapshot exactly cache_time old and read it; the other met
\* it stale, downloaded and wrote
C1_Witness ==
  \E p, q \in Runs :
    /\ hist[p].constructed /\ hist[p].stat = "present"
    /\ hist[p].age = cache_time /\ hist[p].nread = 1 /\ data[p] = Some(OldData)
    /\ hist[q].constructed /\ hist[q].stat = "present"
    /\ hist[q].age > cache_time /\ hist[q].closed

\* C2: a download() that fails never escapes ProtonFlux(...): the run gets
\* the stale snapshot's payload, or an empty payload when there is no
\* snapshot, and the snapshot file is left as it was.
C2_SoftFail ==
  \A p \in Runs : hist[p].dlexc # "none" =>
    /\ hist[p].exc = "none"
    /\ hist[p].constructed
    /\ file.bytes = hist[p].statBytes
    /\ data[p] = IF hist[p].stat = "present" THEN ReadOf(hist[p].statBytes)
                                              ELSE Some(<<>>)

\* C3: whatever the interleaving of a writecache() with a readcache() of
\* another run, what the reader reads is the complete previous snapshot or
\* the complete new one.
C3_AtomicSnapshot ==
  \A p \in Runs : hist[p].nread = 1 =>
    \/ hist[p].readBytes = dumps(OldData)
    \/ hist[p].readBytes = dumps(Parse(feed).value)

\* the bands of C4: [0,20) [20,30) [30,50) [50,100) [100,inf)
BandColor(val) ==
  IF Below(val, 20) THEN "lightgreen"
  ELSE IF Below(val, 30) THEN "darkorange"
  ELSE IF Below(val, 50) THEN "red"
  ELSE IF Below(val, 100) THEN "darkred"
  ELSE "darkmagenta"

\* C4: graph() colours every average by half-open bands whose lower bound
\* belongs to the band: 20 is darkorange, 30 red, 50 darkred, 100
\* darkmagenta.
C4_Bands ==
  ahist.rendered =>
    \A pos \in 1..Len(adata) : colors[pos] = BandColor(adata[pos].aavg)

\* C5: the buckets get_wwv() returns are in strictly ascending date order,
\* whatever order the store returned its rows in.
C5_Ascending ==
  apc \in {"get_conditions", "branch", "done"} =>
    \A i, j \in 1..Len(adata) : i < j => adata[i].dte < adata[j].dte

\* C6: a run whose data is empty never invokes the renderer and never
\* raises (aindex.main(): zero rows; proton_flux.main(): a payload that is
\* None or empty).
C6_NoData ==
  /\ (apc = "done" /\ Len(adata) = 0) =>
       /\ ahist.exc = "none"
       /\ ~ahist.rendered
       /\ ahist.nodata
  /\ \A p \in Runs :
       (pc[p] = "done" /\ hist[p].constructed /\ Len(data[p].d) = 0) =>
         /\ hist[p].exc = "none"
         /\ ~hist[p].figure

\* C7: a fresh snapshot that cannot be unpickled is treated like an absent
\* one: ProtonFlux(...) downloads, rewrites the snapshot, and ends with the
\* downloaded payload, never None and never an exception.
C7_CorruptIsMiss ==
  \A p \in Runs :
    (InitOver(p) /\ Fresh(p) /\ loads(hist[p].statBytes).exc # "none") =>
      /\ hist[p].ndownload = 1
      /\ (hist[p].dlexc = "none" =>
            /\ hist[p].constructed
            /\ data[p] = Some(Parse(feed).value)
            /\ hist[p].closed)

\* what C8 concludes of two successive constructions
SecondServedFromFirst ==
  /\ hist[2].ndownload = 0
  /\ hist[2].nopen = 0
  /\ hist[1].ndownload + hist[2].ndownload <= 1
  /\ AbsentOrStale(1) => hist[1].ndownload + hist[2].ndownload = 1
  /\ data[1] = data[2]
  /\ hist[1].closed => data[2] = Some(Parse(feed).value)

\* C8 as stated: two constructions that both yield a payload, the second
\* within cache_time of the completion of the first.
C8_AsStated ==
  (hist[1].constructed /\ hist[2].constructed
     /\ now[2] - hist[1].doneAt <= cache_time)
    => SecondServedFromFirst

\* C8 amended: the second construction happens within cache_time of the
\* modification time of the snapshot the first one left (not of the first
\* one's completion).  Then the second downloads nothing and writes
\* nothing, there is at most one download in all (exactly one when the
\* snapshot was absent or stale at first), both end alike (the same payload,
\* or the same exception for a snapshot that cannot be unpickled), and the
\* second's payload is what the first wrote.
C8_Idempotent ==
  (InitOver(1) /\ InitOver(2) /\ Fresh(2))
    => /\ SecondServedFromFirst
       /\ hist[1].constructed = hist[2].constructed
       /\ ~hist[1].constructed => hist[1].exc = hist[2].exc

\* the first run found the snapshot stale and replaced it by a payload of
\* two timestamps, which the second run read back
C8_Witness ==
  /\ hist[1].stat = "present" /\ hist[1].age > cache_time /\ hist[1].closed
  /\ hist[2].constructed /\ Fresh(2) /\ hist[2].nread = 1
  /\ data[2].some /\ Len(data[2].d) = 2 /\ data[2] = data[1]

\* the elements of the feed that report band b at timestamp t
Reports(t, b) ==
  { i \in 1..Len(feed.elems) :
      feed.elems[i].time_tag = t /\ feed.elems[i].energy = Energy(b) }

Last(S) == CHOOSE i \in S : \A j \in S : j <= i

\* C9: after a download() that returned, every timestamp of the feed is a
\* key of the payload, and every key maps every band of Bands to the flux
\* the feed reports for it (its last report), or to 0 when it reports none.
C9_Dense ==
  \A p \in Runs : (hist[p].ndownload = 1 /\ hist[p].dlexc = "none") =>
    LET d == data[p].d
    IN /\ \A i \in 1..Len(feed.elems) : HasKey(d, feed.elems[i].time_tag)
       /\ \A j \in 1..Len(d) :
            /\ \E i \in 1..Len(feed.elems) : feed.elems[i].time_tag = d[j].time_tag
            /\ \A k \in 1..Len(d) : d[k].time_tag = d[j].time_tag => k = j
            /\ Bands \subseteq DOMAIN d[j].flux
            /\ \A b \in Bands :
                 d[j].flux[b] =
                   IF Reports(d[j].time_tag, b) = {} THEN 0
                   ELSE feed.elems[Last(Reports(d[j].time_tag, b))].flux

\* a payload of two timestamps out of a feed of three elements, the later
\* timestamp first, with a band reported and a band defaulted
C9_Witness ==
  /\ hist[1].ndownload = 1 /\ hist[1].dlexc = "none"
  /\ Len(feed.elems) = 3 /\ Len(data[1].d) = 2
  /\ data[1].d[1].time_tag = 2
  /\ data[1].d[1].flux[10] = 2 /\ data[1].d[1].flux[100] = 0
  /\ data[1].d[2].flux[100] = 1 /\ data[1].d[2].flux[10] = 0

\* C10: main() returns os.EX_OK when graph() rendered and saved the chart,
\* and os.EX_DATAERR only when it did not.
C10_Status ==
  \A p \in Runs : pc[p] = "done" =>
    /\ hist[p].saved => hist[p].status = EX_OK
    /\ hist[p].status = EX_DATAERR => ~hist[p].saved

=============================================================================
